---- MODULE Spec2Model ----
(***************************************************************************)
(* Model of the mesh export core of Catter:                                *)
(*   generate_mod/m_export_fast.py                                         *)
(*     get_buffer_ib_vb_fast -> BufferModel.parse_elementname_ravel_...    *)
(*     -> BufferModel.calc_index_vertex_buffer                             *)
(*     -> BufferDataConverter.average_normal_tangent / average_normal_color*)
(*                                                                         *)
(* A Vertex Record is a sequence of bytes (naturals below 256) laid out by *)
(* the numpy dtype that parse_elementname_ravel_ndarray_dict builds from   *)
(* the game type's OrderedFullElementList.  float32 components are kept as *)
(* their little-endian IEEE-754 bytes.  A float value is written in tenths *)
(* throughout: 10 is 1.0, -10 is -1.0, 5 is 0.5.                           *)
(***************************************************************************)
EXTENDS Integers, Sequences, FiniteSets, TLC

VARIABLES
    obj,                     \* the exported Blender object: mesh data + custom properties
    config,                  \* GenerateModConfig: recalculate_tangent / recalculate_color
    d3d11GameType,           \* the Vertex Layout Schema
    element_vertex_ndarray,  \* BufferModel.element_vertex_ndarray: one byte record per loop
    indexed_vertices,        \* the OrderedDict of calc_index_vertex_buffer: <<[key, value]>>
    ib,                      \* the index list being built (flattened)
    cursor,                  \* position of the list comprehension: polygons done
    vb,                      \* what indexed_vertices is rebound to by the recompute passes
    category_buffer_dict,    \* the Category Buffer Dict
    pc,                      \* position in the pipeline
    returned,                \* results returned by the completed invocations, oldest first
    converter_input,         \* the argument of a direct call of a BufferDataConverter encoder
    converted                \* the encoder called and the array it returned

vars == <<obj, config, d3d11GameType, element_vertex_ndarray, indexed_vertices, ib,
          cursor, vb, category_buffer_dict, pc, returned, converter_input, converted>>

\* the variables of the direct encoder calls
codec == <<converter_input, converted>>

(***************************************************************************)
(* Bounds of the model.                                                    *)
(***************************************************************************)
MaxTris == 1

(***************************************************************************)
(* Sequence helpers.                                                       *)
(***************************************************************************)
RECURSIVE Concat(_)
Concat(ss) == IF ss = <<>> THEN <<>> ELSE Head(ss) \o Concat(Tail(ss))

RECURSIVE SumSeq(_)
SumSeq(s) == IF s = <<>> THEN 0 ELSE Head(s) + SumSeq(Tail(s))

\* python slice s[lo:hi] of a sequence (0-based, end exclusive, clipped to the length)
PySlice(s, lo, hi) == SubSeq(s, lo + 1, IF hi > Len(s) THEN Len(s) ELSE hi)

\* the sequence a as a value of its own: its elements are computed once, here
Array(a) == SubSeq(a, 1, Len(a))

Range(s) == {s[i] : i \in DOMAIN s}

\* max_groups = 4
max_groups == 4

(***************************************************************************)
(* Numeric formats (MigotoUtils.get_nptype_from_format, format_components).*)
(***************************************************************************)
get_nptype_from_format(fmt) ==
    CASE fmt = "R32G32B32_FLOAT"    -> "float32"
      [] fmt = "R32G32B32A32_FLOAT" -> "float32"
      [] fmt = "R32G32_FLOAT"       -> "float32"
      [] fmt = "R8G8B8A8_UNORM"     -> "uint8"
      [] fmt = "R16G16B16A16_FLOAT" -> "float16"
      [] fmt = "R32G32B32A32_UINT"  -> "uint32"
      [] fmt = "R16G16B16A16_UNORM" -> "uint16"

format_components(fmt) ==
    CASE fmt = "R32G32B32_FLOAT"    -> 3
      [] fmt = "R32G32B32A32_FLOAT" -> 4
      [] fmt = "R32G32_FLOAT"       -> 2
      [] fmt = "R8G8B8A8_UNORM"     -> 4
      [] fmt = "R16G16B16A16_FLOAT" -> 4
      [] fmt = "R32G32B32A32_UINT"  -> 4
      [] fmt = "R16G16B16A16_UNORM" -> 4

\* numpy itemsize of a component type
itemsize(nptype) ==
    CASE nptype = "float32" -> 4 [] nptype = "float16" -> 2 [] nptype = "uint8" -> 1
      [] nptype = "uint32" -> 4 [] nptype = "uint16" -> 2

\* the float32 values of the model, in tenths, and their little-endian IEEE-754 bytes
Float32Values == {-10, 0, 2, 3, 5, 7, 8, 10, 850, 1270, 1700, 2550}

float32_tobytes(v) ==
    CASE v = 0    -> <<0, 0, 0, 0>>
      [] v = 10   -> <<0, 0, 128, 63>>
      [] v = -10  -> <<0, 0, 128, 191>>
      [] v = 2    -> <<205, 204, 76, 62>>
      [] v = 3    -> <<154, 153, 153, 62>>
      [] v = 5    -> <<0, 0, 0, 63>>
      [] v = 7    -> <<51, 51, 51, 63>>
      [] v = 8    -> <<205, 204, 76, 63>>
      [] v = 850  -> <<0, 0, 170, 66>>
      [] v = 1270 -> <<0, 0, 254, 66>>
      [] v = 1700 -> <<0, 0, 42, 67>>
      [] v = 2550 -> <<0, 0, 127, 67>>

float32_frombuffer(b) == CHOOSE v \in Float32Values : float32_tobytes(v) = b

\* the float16 values of the model, in tenths, and their little-endian IEEE-754 bytes
Float16Values == {-10, 0, 10}

float16_tobytes(v) ==
    CASE v = 0   -> <<0, 0>>
      [] v = 10  -> <<0, 60>>
      [] v = -10 -> <<0, 188>>

float16_frombuffer(b) == CHOOSE v \in Float16Values : float16_tobytes(v) = b

component_tobytes(nptype, v) ==
    CASE nptype = "float32" -> float32_tobytes(v)
      [] nptype = "float16" -> float16_tobytes(v)
      [] nptype = "uint8"   -> <<v>>
      [] nptype = "uint16"  -> <<v % 256, (v \div 256) % 256>>
      [] nptype = "uint32"  -> <<v % 256, (v \div 256) % 256,
                                 (v \div 65536) % 256, (v \div 16777216) % 256>>

component_frombuffer(nptype, b) ==
    CASE nptype = "float32" -> float32_frombuffer(b)
      [] nptype = "float16" -> float16_frombuffer(b)
      [] nptype = "uint8"   -> b[1]
      [] nptype = "uint16"  -> b[1] + 256 * b[2]
      [] nptype = "uint32"  -> b[1] + 256 * b[2] + 65536 * b[3] + 16777216 * b[4]

(***************************************************************************)
(* The Vertex Layout Schema (D3D11GameType).                               *)
(***************************************************************************)
Element(fmt, cat) == [Format |-> fmt, Category |-> cat]

\* every category's elements are contiguous in the element list
GameTypeContiguous ==
    [OrderedFullElementList |-> <<"POSITION", "NORMAL", "TANGENT", "COLOR">>,
     ElementNameD3D11ElementDict |->
        [POSITION |-> Element("R32G32B32_FLOAT", "Position"),
         NORMAL   |-> Element("R32G32B32_FLOAT", "Position"),
         TANGENT  |-> Element("R32G32B32A32_FLOAT", "Position"),
         COLOR    |-> Element("R8G8B8A8_UNORM", "Texcoord")],
     PatchBLENDWEIGHTS |-> FALSE]

\* the same elements, COLOR (category Texcoord) placed between Position elements
GameTypeInterleaved ==
    [GameTypeContiguous EXCEPT
        !.OrderedFullElementList = <<"POSITION", "COLOR", "NORMAL", "TANGENT">>]

GameTypes == {GameTypeContiguous, GameTypeInterleaved}

\* a schema of the given elements, formats and categories as in GameTypeContiguous
GameTypeOf(names) ==
    [OrderedFullElementList |-> names,
     ElementNameD3D11ElementDict |->
        [n \in Range(names) |-> GameTypeContiguous.ElementNameD3D11ElementDict[n]],
     PatchBLENDWEIGHTS |-> FALSE]

GameTypeNoNormal == GameTypeOf(<<"POSITION", "TANGENT", "COLOR">>)

GameTypeNoTangent == GameTypeOf(<<"POSITION", "NORMAL", "COLOR">>)

\* POSITION, NORMAL and TANGENT as in GameTypeContiguous and a TEXCOORD of the format
GameTypeTexcoordOf(fmt) ==
    [OrderedFullElementList |-> <<"POSITION", "NORMAL", "TANGENT", "TEXCOORD">>,
     ElementNameD3D11ElementDict |->
        [POSITION |-> Element("R32G32B32_FLOAT", "Position"),
         NORMAL   |-> Element("R32G32B32_FLOAT", "Position"),
         TANGENT  |-> Element("R32G32B32A32_FLOAT", "Position"),
         TEXCOORD |-> Element(fmt, "Texcoord")],
     PatchBLENDWEIGHTS |-> FALSE]

GameTypeTexcoord == GameTypeTexcoordOf("R32G32_FLOAT")

GameTypeTexcoord4 == GameTypeTexcoordOf("R32G32B32A32_FLOAT")

\* POSITION and the blend elements; patched tells whether BLENDWEIGHT is patched later
GameTypeBlend(patched) ==
    [OrderedFullElementList |-> <<"POSITION", "BLENDINDICES", "BLENDWEIGHT">>,
     ElementNameD3D11ElementDict |->
        [POSITION     |-> Element("R32G32B32_FLOAT", "Position"),
         BLENDINDICES |-> Element("R32G32B32A32_UINT", "Blend"),
         BLENDWEIGHT  |-> Element("R32G32B32A32_FLOAT", "Blend")],
     PatchBLENDWEIGHTS |-> patched]

\* a two-component TEXCOORD and a four-component POSITION of the format
GameTypePositionOf(fmt) ==
    [GameTypeTexcoord EXCEPT !.ElementNameD3D11ElementDict.POSITION = Element(fmt, "Position")]

GameTypeHalfPosition == GameTypePositionOf("R16G16B16A16_FLOAT")

GameTypeFloat4Position == GameTypePositionOf("R32G32B32A32_FLOAT")

\* POSITION, NORMAL, TANGENT and a COLOR of the format
GameTypeColorOf(fmt) ==
    [GameTypeContiguous EXCEPT !.ElementNameD3D11ElementDict.COLOR = Element(fmt, "Texcoord")]

\* a second colour set after COLOR
GameTypeTwoColors ==
    [OrderedFullElementList |-> <<"POSITION", "NORMAL", "TANGENT", "COLOR", "COLOR1">>,
     ElementNameD3D11ElementDict |->
        [POSITION |-> Element("R32G32B32_FLOAT", "Position"),
         NORMAL   |-> Element("R32G32B32_FLOAT", "Position"),
         TANGENT  |-> Element("R32G32B32A32_FLOAT", "Position"),
         COLOR    |-> Element("R8G8B8A8_UNORM", "Texcoord"),
         COLOR1   |-> Element("R8G8B8A8_UNORM", "Texcoord")],
     PatchBLENDWEIGHTS |-> FALSE]

\* COLOR kept as four float32
GameTypeFloatColor ==
    [GameTypeContiguous EXCEPT
        !.ElementNameD3D11ElementDict.COLOR = Element("R32G32B32A32_FLOAT", "Texcoord")]

ElementFormat(gt, name) == gt.ElementNameD3D11ElementDict[name].Format
ElementCategory(gt, name) == gt.ElementNameD3D11ElementDict[name].Category

\* byte size of a field of the record dtype: (np_type, format_len)
FieldByteWidth(gt, name) ==
    itemsize(get_nptype_from_format(ElementFormat(gt, name)))
        * format_components(ElementFormat(gt, name))

ElementIndex(gt, name) ==
    CHOOSE i \in DOMAIN gt.OrderedFullElementList : gt.OrderedFullElementList[i] = name

\* byte offset of a field: the dtype is packed in element order
FieldOffset(gt, name) ==
    SumSeq(Array([i \in 1..(ElementIndex(gt, name) - 1) |->
                FieldByteWidth(gt, gt.OrderedFullElementList[i])]))

RecordByteWidth(gt) ==
    SumSeq([i \in DOMAIN gt.OrderedFullElementList |->
                FieldByteWidth(gt, gt.OrderedFullElementList[i])])

\* vb[i][name]: the components of a field of a byte record
GetField(gt, rec, name) ==
    LET t   == get_nptype_from_format(ElementFormat(gt, name))
        sz  == itemsize(t)
        off == FieldOffset(gt, name)
    IN  Array([c \in 1..format_components(ElementFormat(gt, name)) |->
                component_frombuffer(t, PySlice(rec, off + (c - 1) * sz, off + c * sz))])

\* the bytes of a field holding the given components
FieldBytes(gt, name, comps) ==
    Concat(Array([c \in DOMAIN comps |->
                component_tobytes(get_nptype_from_format(ElementFormat(gt, name)), comps[c])]))

\* the components are written at the start of the record
SetField_at_record_start(gt, rec, name, comps) ==
    FieldBytes(gt, name, comps) \o PySlice(rec, FieldByteWidth(gt, name), Len(rec))

\* vb[i][name] = comps
SetField(gt, rec, name, comps) ==
    LET off == FieldOffset(gt, name)
        w   == FieldByteWidth(gt, name)
    IN  PySlice(rec, 0, off) \o FieldBytes(gt, name, comps) \o PySlice(rec, off + w, Len(rec))

\* D3D11GameType.CategoryStrideDict: categories in order of first appearance
RECURSIVE CategoryOrderOf(_, _)
CategoryOrderOf(gt, names) ==
    IF names = <<>> THEN <<>>
    ELSE LET rest == CategoryOrderOf(gt, PySlice(names, 0, Len(names) - 1))
             cat  == ElementCategory(gt, names[Len(names)])
         IN  IF cat \in Range(rest) THEN rest ELSE Append(rest, cat)

CategoryOrder(gt) == CategoryOrderOf(gt, gt.OrderedFullElementList)

\* stride of a category: the sum of its elements' byte sizes
CategoryStride(gt, cat) ==
    SumSeq([i \in DOMAIN gt.OrderedFullElementList |->
                IF ElementCategory(gt, gt.OrderedFullElementList[i]) = cat
                THEN FieldByteWidth(gt, gt.OrderedFullElementList[i]) ELSE 0])

CategoryStrideDict(gt) ==
    [k \in DOMAIN CategoryOrder(gt) |->
        [categoryname |-> CategoryOrder(gt)[k],
         category_stride |-> CategoryStride(gt, CategoryOrder(gt)[k])]]

\* D3D11GameType.get_real_category_stride_dict()
get_real_category_stride_dict(gt) == CategoryStrideDict(gt)

(***************************************************************************)
(* The format codec used by the extractor.  Blender stores colours as      *)
(* float32, in tenths like every float of the model.                       *)
(***************************************************************************)
\* numpy.round of the rational n / d, d > 0: to nearest, ties to even
RoundHalfEven(n, d) ==
    LET q == n \div d
        r == n % d
    IN  IF 2 * r > d THEN q + 1
        ELSE IF 2 * r < d THEN q
        ELSE IF q % 2 = 0 THEN q ELSE q + 1

\* the values a float holding the whole number x can become under .astype to the integer
\* type of the given width.  Out of the type's range the conversion is undefined in C:
\* builds reduce modulo 2^bits, or give 0 for a negative value and an unsigned type
astype_integer(x, bits, signed) ==
    LET m       == 2 ^ bits
        lo      == IF signed THEN -(m \div 2) ELSE 0
        wrapped == ((x - lo) % m) + lo
    IN  IF lo <= x /\ x <= lo + m - 1 THEN {x}
        ELSE IF ~signed /\ x < 0 THEN {wrapped, 0}
        ELSE {wrapped}

\* the arrays whose component c is drawn from sets[c]
RECURSIVE ArraysOf(_)
ArraysOf(sets) ==
    IF sets = <<>> THEN {<<>>}
    ELSE {<<h>> \o rest : h \in Head(sets), rest \in ArraysOf(Tail(sets))}

\* numpy.round(input_array * scale).astype(type): the arrays the call can return
RoundAndCast(input_array, scale, bits, signed) ==
    ArraysOf([c \in DOMAIN input_array |->
                astype_integer(RoundHalfEven(input_array[c] * scale, 10), bits, signed)])

\* numpy.round(input_array * 127).astype(numpy.int8)
convert_4x_float32_to_r8g8b8a8_snorm(input_array) == RoundAndCast(input_array, 127, 8, TRUE)

\* numpy.round(input_array * 255).astype(numpy.uint8)
convert_4x_float32_to_r8g8b8a8_unorm(input_array) == RoundAndCast(input_array, 255, 8, FALSE)

\* numpy.round(input_array * 65535).astype(numpy.uint16)
convert_4x_float32_to_r16g16b16a16_unorm(input_array) == RoundAndCast(input_array, 65535, 16, FALSE)

\* numpy.round(input_array * 32767).astype(numpy.uint16)
convert_4x_float32_to_r16g16b16a16_snorm(input_array) == RoundAndCast(input_array, 32767, 16, FALSE)

\* the array of a call that can return one array only
TheArray(arrays) == CHOOSE a \in arrays : TRUE

(***************************************************************************)
(* The host mesh.  Loops carry the values mesh.loops.foreach_get reads     *)
(* after mesh_triangulate and calc_tangents.                               *)
(***************************************************************************)
mesh_vertices ==
    << [undeformed_co |-> <<0, 0, 0>>, groups |-> <<>>],
       [undeformed_co |-> <<10, 0, 0>>, groups |-> <<>>] >>

\* an element of v.groups: a vertex group index and the vertex's weight in it, in tenths
VertexGroupElement(group, weight) == [group |-> group, weight |-> weight]

BaseLoop ==
    [vertex_index |-> 0, normal |-> <<0, 0, 10>>, tangent |-> <<10, 0, 0>>, bitangent_sign |-> 10]

\* a loop and its one-attribute variations: other normal, other tangent, other vertex
LoopSamples ==
    { BaseLoop,
      [BaseLoop EXCEPT !.normal = <<0, 0, -10>>],
      [BaseLoop EXCEPT !.tangent = <<0, 10, 0>>],
      [BaseLoop EXCEPT !.vertex_index = 1] }

\* the colour of every loop of an authored COLOR layer, in tenths
AuthoredColor == <<10, 5, 0, 10>>

\* the colour Blender gives every loop of a layer made by vertex_colors.new
NewLayerColor == <<10, 10, 10, 10>>

\* the polygons of a triangulated mesh of n triangles
Triangles(n) == [t \in 1..n |-> [loop_start |-> 3 * (t - 1), loop_total |-> 3]]

\* a UV layer of the mesh: its name and the uv of every loop
UvLayer(name, data) == [name |-> name, data |-> data]

\* the uv of the loops of two authored UV sets
UvSetA(n) == [i \in 1..n |-> IF i % 2 = 1 THEN <<3, 2>> ELSE <<10, 10>>]
UvSetB(n) == [i \in 1..n |-> <<7, 0>>]

\* the uv Blender gives every loop of a layer made by uv_layers.new
NewLayerUV == <<0, 0>>

\* a mesh with the given UV layers, in the order of mesh.uv_layers
MeshDataUV(loops, colors, uvs) ==
    [vertices      |-> mesh_vertices,
     loops         |-> loops,
     polygons      |-> Triangles(Len(loops) \div 3),
     vertex_colors |-> colors,
     uv_layers     |-> uvs]

\* a mesh with one UV layer of Blender's default name; calc_tangents needs a UV layer
MeshData(loops, colors) ==
    MeshDataUV(loops, colors, <<UvLayer("UVMap", UvSetA(Len(loops)))>>)

\* a freshly imported object carries both per-object switches, set to False
ImportedProps ==
    ("3DMigoto:RecalculateTANGENT" :> FALSE) @@ ("3DMigoto:RecalculateCOLOR" :> FALSE)

\* the custom properties of an object: as imported, without the two switches, and
\* with one of the switches turned on by the user
PropsSamples ==
    { ImportedProps,
      [x \in {} |-> FALSE],
      [ImportedProps EXCEPT !["3DMigoto:RecalculateTANGENT"] = TRUE],
      [ImportedProps EXCEPT !["3DMigoto:RecalculateCOLOR"] = TRUE] }

ColorLayer(n, color) == ("COLOR" :> [i \in 1..n |-> color])

NoLayers == [x \in {} |-> <<>>]

\* names for which d3d11_element_name.startswith("COLOR") holds
ColorNames == {"COLOR", "COLOR1"}

\* names for which d3d11_element_name.startswith("TEXCOORD") holds
TexcoordNames == {"TEXCOORD", "TEXCOORD1"}

\* d3d11_element_name + ".xy" and d3d11_element_name + ".zw"
XY(name) == IF name = "TEXCOORD" THEN "TEXCOORD.xy" ELSE "TEXCOORD1.xy"
ZW(name) == IF name = "TEXCOORD" THEN "TEXCOORD.zw" ELSE "TEXCOORD1.zw"

\* formats for which Format.endswith("FLOAT") holds
FloatFormats ==
    {"R32G32B32_FLOAT", "R32G32B32A32_FLOAT", "R32G32_FLOAT", "R16G16B16A16_FLOAT"}

\* name in mesh.uv_layers
HasUvLayer(layers, name) == \E k \in DOMAIN layers : layers[k].name = name

\* mesh.uv_layers[name]
UvLayerNamed(layers, name) == layers[CHOOSE k \in DOMAIN layers : layers[k].name = name]

(***************************************************************************)
(* get_buffer_ib_vb_fast, up to the call of calc_index_vertex_buffer.      *)
(***************************************************************************)
\* the TEXCOORD part of check_and_verify_attributes, element by element: a missing
\* "<name>.xy" is the only layer renamed (for TEXCOORD) or a new layer
RECURSIVE verify_uv_layers(_, _, _)
verify_uv_layers(layers, names, nloops) ==
    IF names = <<>> THEN layers
    ELSE LET name == Head(names)
             next == IF name \in TexcoordNames /\ ~HasUvLayer(layers, XY(name))
                     THEN IF Len(layers) = 1 /\ name = "TEXCOORD"
                          THEN <<[layers[1] EXCEPT !.name = XY(name)]>>
                          ELSE Append(layers,
                                      UvLayer(XY(name), [i \in 1..nloops |-> NewLayerUV]))
                     ELSE layers
         IN  verify_uv_layers(next, Tail(names), nloops)

\* BufferModel.check_and_verify_attributes: complete the missing COLOR layers and the
\* missing "<TEXCOORD>.xy" UV layers
check_and_verify_attributes(gt, o) ==
    LET names   == {n \in Range(gt.OrderedFullElementList) : n \in ColorNames}
        present == DOMAIN o.data.vertex_colors
        layers  == [n \in present \cup names |->
                        IF n \in present THEN o.data.vertex_colors[n]
                        ELSE [i \in 1..Len(o.data.loops) |-> NewLayerColor]]
    IN  [o EXCEPT !.data.vertex_colors = layers,
                  !.data.uv_layers = verify_uv_layers(o.data.uv_layers, gt.OrderedFullElementList,
                                                      Len(o.data.loops))]

\* obj.evaluated_get(depsgraph).to_mesh(), mesh_triangulate, calc_tangents
to_mesh(o) == o.data

\* the uv row of loop li with uvs_array[:, 1] = 1.0 - uvs_array[:, 1] applied twice
FlipV_twice(uv) == <<uv[1], 10 - (10 - uv[2])>>

\* the uv row of loop li after uvs_array[:, 1] = 1.0 - uvs_array[:, 1]
FlipV(uv) == <<uv[1], 10 - uv[2]>>

\* the loop over ("<name>.xy", "<name>.zw") assigns every layer present to the same
\* field: the last one present stays
StoredUvName(mesh, name) ==
    IF HasUvLayer(mesh.uv_layers, ZW(name)) THEN ZW(name) ELSE XY(name)

\* a float TEXCOORD element with a UV layer to read
ReadsUv(gt, mesh, name) ==
    /\ name \in TexcoordNames
    /\ ElementFormat(gt, name) \in FloatFormats
    /\ HasUvLayer(mesh.uv_layers, XY(name)) \/ HasUvLayer(mesh.uv_layers, ZW(name))

\* the first groups of the vertex in the order of v.groups, not sorted by weight
sorted_groups_unsorted(v) == SubSeq(v.groups, 1, IF Len(v.groups) < 4 THEN Len(v.groups) ELSE 4)

\* sorted(v.groups, key=lambda x: x.weight, reverse=True)[:max_groups]: the sort is
\* stable, elements of equal weight keep the order of v.groups
sorted_groups(v) ==
    LET g      == v.groups
        rank   == [i \in DOMAIN g |->
                    1 + Cardinality({j \in DOMAIN g :
                                        \/ g[j].weight > g[i].weight
                                        \/ g[j].weight = g[i].weight /\ j < i})]
        sorted == Array([k \in DOMAIN g |-> g[CHOOSE i \in DOMAIN g : rank[i] = k]])
    IN  SubSeq(sorted, 1, IF Len(g) < max_groups THEN Len(g) ELSE max_groups)

\* a row of all_groups / all_weights: numpy.zeros with the first num_groups filled
all_groups(v) ==
    LET groups == sorted_groups(v)
    IN  Array([k \in 1..max_groups |-> IF k <= Len(groups) THEN groups[k].group ELSE 0])

all_weights(v) ==
    LET groups == sorted_groups(v)
    IN  Array([k \in 1..max_groups |-> IF k <= Len(groups) THEN groups[k].weight ELSE 0])

\* (0 <= loop_vertex_indices) & (loop_vertex_indices < len(mesh_vertices))
valid_mask(mesh, li) ==
    /\ 0 <= mesh.loops[li + 1].vertex_index
    /\ mesh.loops[li + 1].vertex_index < Len(mesh.vertices)

\* the rows of blendindices and blendweights of loop li
blendindices(mesh, li) ==
    IF valid_mask(mesh, li)
    THEN all_groups(mesh.vertices[mesh.loops[li + 1].vertex_index + 1])
    ELSE Array([k \in 1..max_groups |-> 0])

blendweights(mesh, li) ==
    IF valid_mask(mesh, li)
    THEN all_weights(mesh.vertices[mesh.loops[li + 1].vertex_index + 1])
    ELSE Array([k \in 1..max_groups |-> 0])

\* the elements for which startswith('BLENDINDICES') / startswith('BLENDWEIGHT') holds
BlendIndicesNames == {"BLENDINDICES"}
BlendWeightNames == {"BLENDWEIGHT"}

\* a BLENDWEIGHT element that is assigned: the schema does not mark weights as patched
WritesBlendWeight(gt, name) == name \in BlendWeightNames /\ ~gt.PatchBLENDWEIGHTS

\* element_vertex_ndarray[name] = result for a float32 result of values in [0, 1]: numpy
\* casts to the field's type, an integer type takes the whole part
astype_field(nptype, v) ==
    IF nptype \in {"uint8", "uint16", "uint32"} THEN v \div 10 ELSE v

\* the bitangent sign is stored as read
FlipBitangentSign_not_applied(sign) == sign

\* bitangent_signs *= -1
FlipBitangentSign(sign) == sign * (-1)

\* the components parse_elementname_ravel_ndarray_dict assigns to one element of loop li
ParseElement(gt, mesh, name, li) ==
    LET loop  == mesh.loops[li + 1]
        zeros == [c \in 1..format_components(ElementFormat(gt, name)) |-> 0]
        half4 == ElementFormat(gt, name) = "R16G16B16A16_FLOAT"
    IN  CASE name = "POSITION" ->
                mesh.vertices[loop.vertex_index + 1].undeformed_co
                    \o (IF half4 THEN <<0>> ELSE <<>>)
          [] name = "NORMAL"   -> loop.normal \o (IF half4 THEN <<10>> ELSE <<>>)
          [] name = "TANGENT"  -> loop.tangent \o <<FlipBitangentSign(loop.bitangent_sign)>>
          [] ReadsUv(gt, mesh, name) ->
                FlipV(UvLayerNamed(mesh.uv_layers, StoredUvName(mesh, name)).data[li + 1])
          [] name \in ColorNames ->
                IF name \in DOMAIN mesh.vertex_colors
                THEN IF ElementFormat(gt, name) = "R8G8B8A8_UNORM"
                     THEN TheArray(convert_4x_float32_to_r8g8b8a8_unorm(
                                        mesh.vertex_colors[name][li + 1]))
                     ELSE Array([c \in 1..4 |->
                            astype_field(get_nptype_from_format(ElementFormat(gt, name)),
                                         mesh.vertex_colors[name][li + 1][c])])
                ELSE zeros
          [] name \in BlendIndicesNames -> blendindices(mesh, li)
          [] WritesBlendWeight(gt, name) -> blendweights(mesh, li)
          [] OTHER -> zeros

\* the number of columns of the array assigned to an element; an element that is not
\* assigned keeps the zeros of its field
AssignedComponents(gt, mesh, name) ==
    CASE name \in {"POSITION", "NORMAL"} ->
                IF ElementFormat(gt, name) = "R16G16B16A16_FLOAT" THEN 4 ELSE 3
      [] name = "TANGENT" -> 4
      [] ReadsUv(gt, mesh, name) -> 2
      [] name \in ColorNames /\ name \in DOMAIN mesh.vertex_colors -> 4
      [] name \in BlendIndicesNames -> max_groups
      [] WritesBlendWeight(gt, name) -> max_groups
      [] OTHER -> format_components(ElementFormat(gt, name))

\* self.element_vertex_ndarray[name] = array raises when the array's columns are not
\* the field's: could not broadcast
ParseRaises(gt, mesh) ==
    \E e \in DOMAIN gt.OrderedFullElementList :
        AssignedComponents(gt, mesh, gt.OrderedFullElementList[e])
            # format_components(ElementFormat(gt, gt.OrderedFullElementList[e]))

\* BufferModel.parse_elementname_ravel_ndarray_dict: element_vertex_ndarray, as bytes
parse_elementname_ravel_ndarray_dict(gt, mesh) ==
    Array([i \in 1..Len(mesh.loops) |->
        Concat(Array([e \in DOMAIN gt.OrderedFullElementList |->
                    FieldBytes(gt, gt.OrderedFullElementList[e],
                               ParseElement(gt, mesh, gt.OrderedFullElementList[e], i - 1))]))])

(***************************************************************************)
(* The OrderedDict of calc_index_vertex_buffer: entries in insertion order.*)
(***************************************************************************)
Keys(d) == Array([k \in DOMAIN d |-> d[k].key])

HasKey(d, key) == \E k \in DOMAIN d : d[k].key = key

\* setdefault that never finds the key: every loop gets a new entry
setdefault_always_insert(d, key, default) ==
    [dict |-> Append(d, [key |-> key, value |-> default]), value |-> default]

\* setdefault whose new entries are numbered from one
setdefault_one_based(d, key, default) ==
    IF HasKey(d, key)
    THEN [dict |-> d, value |-> d[CHOOSE k \in DOMAIN d : d[k].key = key].value]
    ELSE [dict |-> Append(d, [key |-> key, value |-> default + 1]), value |-> default + 1]

\* OrderedDict.setdefault(key, default): the dict afterwards and the value returned
setdefault(d, key, default) ==
    IF HasKey(d, key)
    THEN [dict |-> d, value |-> d[CHOOSE k \in DOMAIN d : d[k].key = key].value]
    ELSE [dict |-> Append(d, [key |-> key, value |-> default]), value |-> default]

(***************************************************************************)
(* Initial states and the first steps.                                     *)
(***************************************************************************)
Locals ==
    /\ element_vertex_ndarray = <<>>
    /\ indexed_vertices = <<>>
    /\ ib = <<>>
    /\ cursor = 0
    /\ vb = <<>>
    /\ category_buffer_dict = <<>>
    /\ pc = "start"
    /\ returned = <<>>
    /\ converter_input = <<>>
    /\ converted = <<>>

Init ==
    /\ \E n \in 0..MaxTris : \E loops \in [1..(3 * n) -> LoopSamples] :
          obj = [data  |-> MeshData(loops, ColorLayer(3 * n, AuthoredColor)),
                 props |-> ImportedProps]
    /\ config \in [recalculate_tangent : BOOLEAN, recalculate_color : BOOLEAN]
    /\ d3d11GameType \in GameTypes
    /\ Locals

\* the evaluated mesh is taken before the attributes are verified
EvaluatedMesh_before_verify(gt, o) == to_mesh(o)

\* the mesh get_buffer_ib_vb_fast parses: the attributes are verified on the object
\* first, the evaluated mesh is taken afterwards
EvaluatedMesh(gt, o) == to_mesh(check_and_verify_attributes(gt, o))

\* get_buffer_ib_vb_fast: a new BufferModel, verify the attributes, take the evaluated
\* mesh, parse it, and enter calc_index_vertex_buffer with an empty OrderedDict
Invoke ==
    /\ obj' = check_and_verify_attributes(d3d11GameType, obj)
    /\ IF ParseRaises(d3d11GameType, EvaluatedMesh(d3d11GameType, obj))
       THEN /\ element_vertex_ndarray' = <<>>
            /\ pc' = "error"
       ELSE /\ element_vertex_ndarray' =
                    parse_elementname_ravel_ndarray_dict(d3d11GameType,
                                                         EvaluatedMesh(d3d11GameType, obj))
            /\ pc' = IF Len(obj.data.polygons) = 0 THEN "tangent" ELSE "dedup"
    /\ indexed_vertices' = <<>>
    /\ ib' = <<>>
    /\ cursor' = 0
    /\ vb' = <<>>
    /\ category_buffer_dict' = <<>>
    /\ UNCHANGED <<config, d3d11GameType, returned>>
    /\ UNCHANGED codec

GetBufferIbVbFast ==
    /\ pc = "start"
    /\ Invoke

(***************************************************************************)
(* numpy helpers of the recompute passes.  Indices are 0-based as in the   *)
(* code; a sequence a of the model holds a[i] of the code at a[i + 1].     *)
(***************************************************************************)
\* the elements of a set of integers in ascending order
Ascending(S) ==
    Array([r \in 1..Cardinality(S) |-> CHOOSE x \in S : Cardinality({y \in S : y < x}) = r - 1])

\* order of two rows under numpy.lexsort(rows.T): the last column is the primary key
LexsortLess(p, q) ==
    \E c \in DOMAIN p : p[c] < q[c] /\ \A d \in DOMAIN p : d > c => p[d] = q[d]

\* order of two rows under numpy.unique(rows, axis=0): the first column is the primary key
RowLess(p, q) ==
    \E c \in DOMAIN p : p[c] < q[c] /\ \A d \in DOMAIN p : d < c => p[d] = q[d]

\* no sorting: the rows stay in their input order
lexsort_unsorted(positions) == Array([r \in 1..Len(positions) |-> r - 1])

\* numpy.lexsort(positions.T): the stable sorting permutation, 0-based
lexsort(positions) ==
    LET N == Len(positions)
        Before(i, j) == \/ LexsortLess(positions[i], positions[j])
                        \/ positions[i] = positions[j] /\ i < j
        rank(i) == Cardinality({j \in 1..N : Before(j, i)})
    IN  Array([r \in 1..N |-> (CHOOSE i \in 1..N : rank(i) = r - 1) - 1])

\* a[indices]: numpy fancy indexing with 0-based indices
Take(a, indices) == Array([r \in DOMAIN indices |-> a[indices[r] + 1]])

\* numpy.r_[0, flatnonzero(any(sorted[:-1] != sorted[1:], axis=1)) + 1, len(sorted)]
group_indices_of(sorted_positions) ==
    LET N == Len(sorted_positions)
        changes == {k \in 0..(N - 2) : sorted_positions[k + 1] # sorted_positions[k + 2]}
    IN  <<0>> \o Ascending({k + 1 : k \in changes}) \o <<N>>

VecAdd(u, v) == Array([c \in DOMAIN u |-> u[c] + v[c]])

RECURSIVE VecSum(_, _)
VecSum(vs, width) ==
    IF vs = <<>> THEN Array([c \in 1..width |-> 0]) ELSE VecAdd(Head(vs), VecSum(Tail(vs), width))

\* numpy.add.reduceat(a, starts, axis=0) for ascending starts
reduceat(a, starts) ==
    Array([g \in DOMAIN starts |->
        VecSum(PySlice(a, starts[g], IF g < Len(starts) THEN starts[g + 1] ELSE Len(a)), 3)])

Abs(x) == IF x < 0 THEN -x ELSE x

\* numpy.linalg.norm of a vector whose length is a whole number of tenths
norm(v) ==
    LET sq == SumSeq([c \in DOMAIN v |-> v[c] * v[c]])
    IN  CHOOSE n \in 0..SumSeq([c \in DOMAIN v |-> Abs(v[c])]) : n * n = sq

\* one component of accumulated / norm: 0 / 0 is NaN
Divide(a, n) ==
    IF n = 0 THEN [isnan |-> TRUE, value |-> 0] ELSE [isnan |-> FALSE, value |-> (a * 10) \div n]

\* the NaN components are replaced by one instead of zero
NanToZero_to_one(x) == IF x.isnan THEN 10 ELSE x.value

\* normalized_normals[numpy.isnan(normalized_normals)] = 0
NanToZero(x) == IF x.isnan THEN 0 ELSE x.value

\* dict(zip(keys, values))[key]: the last pair of that key wins
DictOfZip(keys, values, key) ==
    LET hits == {k \in DOMAIN keys : keys[k] = key}
    IN  values[CHOOSE k \in hits : \A h \in hits : h <= k]

\* the per-object property is not looked up
ObjGet_default_only(o, key, default) == default

\* obj.get(key, default)
ObjGet(o, key, default) == IF key \in DOMAIN o.props THEN o.props[key] ELSE default

(***************************************************************************)
(* BufferDataConverter.average_normal_tangent                              *)
(***************************************************************************)
TangentAllowed(o, cfg, gt) ==
    /\ "TANGENT" \in Range(gt.OrderedFullElementList)
    /\ \/ cfg.recalculate_tangent
       \/ ObjGet(o, "3DMigoto:RecalculateTANGENT", FALSE)

\* the sign is kept for a positive w and flipped only for a negative one
TangentSign_zero_is_negative(w) == IF w > 0 THEN -10 ELSE 10

\* numpy.where(w >= 0, -1.0, 1.0) for one record's TANGENT w
TangentSign(w) == IF w >= 0 THEN -10 ELSE 10

\* the pass raises: no row to sort or to compare along axis 1, no field of the name,
\* or no component 3 in TANGENT
TangentPassRaises(records, gt) ==
    \/ Len(records) = 0
    \/ "POSITION" \notin Range(gt.OrderedFullElementList)
    \/ "NORMAL" \notin Range(gt.OrderedFullElementList)
    \/ format_components(ElementFormat(gt, "TANGENT")) < 4

\* the recomputed records are returned in the order of the position sort
average_normal_tangent_in_sort_order(records, gt) ==
    LET positions          == Array([i \in DOMAIN records |-> GetField(gt, records[i], "POSITION")])
        normals            == Array([i \in DOMAIN records |-> GetField(gt, records[i], "NORMAL")])
        sort_indices       == lexsort(positions)
        sorted_positions   == Take(positions, sort_indices)
        sorted_normals     == Take(normals, sort_indices)
        group_indices      == group_indices_of(sorted_positions)
        starts             == PySlice(group_indices, 0, Len(group_indices) - 1)
        unique_positions   == Take(sorted_positions, starts)
        accumulated        == reduceat(sorted_normals, starts)
        normalized_normals ==
            Array([g \in DOMAIN accumulated |->
                Array([c \in DOMAIN accumulated[g] |->
                    NanToZero(Divide(accumulated[g][c], norm(accumulated[g])))])])
        w(i) == TangentSign(GetField(gt, records[i], "TANGENT")[4])
    IN  Take(Array([i \in DOMAIN records |->
            SetField(gt, records[i], "TANGENT",
                     DictOfZip(unique_positions, normalized_normals, positions[i]) \o <<w(i)>>)]),
             sort_indices)

\* the recomputed records, for a non-empty sequence of byte records
average_normal_tangent(records, gt) ==
    LET positions          == Array([i \in DOMAIN records |-> GetField(gt, records[i], "POSITION")])
        normals            == Array([i \in DOMAIN records |-> GetField(gt, records[i], "NORMAL")])
        sort_indices       == lexsort(positions)
        sorted_positions   == Take(positions, sort_indices)
        sorted_normals     == Take(normals, sort_indices)
        group_indices      == group_indices_of(sorted_positions)
        starts             == PySlice(group_indices, 0, Len(group_indices) - 1)
        unique_positions   == Take(sorted_positions, starts)
        accumulated        == reduceat(sorted_normals, starts)
        normalized_normals ==
            Array([g \in DOMAIN accumulated |->
                Array([c \in DOMAIN accumulated[g] |->
                    NanToZero(Divide(accumulated[g][c], norm(accumulated[g])))])])
        w(i) == TangentSign(GetField(gt, records[i], "TANGENT")[4])
    IN  Array([i \in DOMAIN records |->
            SetField(gt, records[i], "TANGENT",
                     DictOfZip(unique_positions, normalized_normals, positions[i]) \o <<w(i)>>)])

AverageNormalTangent ==
    /\ pc = "tangent"
    /\ IF ~TangentAllowed(obj, config, d3d11GameType)
       THEN /\ vb' = Keys(indexed_vertices)
            /\ pc' = "color"
       ELSE IF TangentPassRaises(Keys(indexed_vertices), d3d11GameType)
       THEN /\ vb' = <<>>
            /\ pc' = "error"
       ELSE /\ vb' = average_normal_tangent(Keys(indexed_vertices), d3d11GameType)
            /\ pc' = "color"
    /\ UNCHANGED <<obj, config, d3d11GameType, element_vertex_ndarray, indexed_vertices,
                   ib, cursor, category_buffer_dict, returned>>
    /\ UNCHANGED codec

(***************************************************************************)
(* BufferDataConverter.average_normal_color                                *)
(***************************************************************************)
ColorAllowed(o, cfg, gt) ==
    /\ "COLOR" \in Range(gt.OrderedFullElementList)
    /\ \/ cfg.recalculate_color
       \/ ObjGet(o, "3DMigoto:RecalculateCOLOR", FALSE)

\* ((average + 1) / 2 * 255).astype(uint8) for average = acc / count, count > 0
NormalToColor(acc, count) == (((acc + 10 * count) * 255) \div (20 * count)) % 256

\* numpy.array(..., dtype=numpy.uint8) of a non-negative component of the given type:
\* the fraction of a float is dropped
astype_uint8(nptype, v) == IF nptype = "uint8" THEN v % 256 ELSE (v \div 10) % 256

\* a uint8 assigned to a component of the given type
from_uint8(nptype, b) == IF nptype = "uint8" THEN b ELSE b * 10

\* the pass raises on the first record: no field of the name, or no component 3 in COLOR
ColorPassRaises(records, gt) ==
    /\ Len(records) > 0
    /\ \/ "POSITION" \notin Range(gt.OrderedFullElementList)
       \/ "NORMAL" \notin Range(gt.OrderedFullElementList)
       \/ format_components(ElementFormat(gt, "COLOR")) < 4

average_normal_color(records, gt) ==
    LET positions        == Array([i \in DOMAIN records |-> GetField(gt, records[i], "POSITION")])
        rows             == Range(positions)
        \* numpy.unique(..., return_inverse=True, axis=0)
        unique_positions == Array([r \in 1..Cardinality(rows) |->
                                CHOOSE p \in rows :
                                    Cardinality({q \in rows : RowLess(q, p)}) = r - 1])
        position_indices == Array([i \in DOMAIN records |->
                                (CHOOSE r \in DOMAIN unique_positions :
                                    unique_positions[r] = positions[i]) - 1])
        members(r)       == {i \in DOMAIN records : position_indices[i] = r - 1}
        accumulated_normals ==
            Array([r \in DOMAIN unique_positions |->
                VecSum(Array([k \in 1..Cardinality(members(r)) |->
                            GetField(gt, records[Ascending(members(r))[k]], "NORMAL")]), 3)])
        counts           == Array([r \in DOMAIN unique_positions |-> Cardinality(members(r))])
        mask             == Array([r \in DOMAIN unique_positions |-> counts[r] > 0])
        normalized_normals ==
            Array([r \in DOMAIN unique_positions |->
                Array([c \in 1..3 |->
                    IF mask[r] THEN NormalToColor(accumulated_normals[r][c], counts[r])
                    ELSE 127])])
        nptype           == get_nptype_from_format(ElementFormat(gt, "COLOR"))
        \* new_color_array[i]: the row [r, g, b, val['COLOR'][3]] as uint8
        new_color(i) ==
            LET r == position_indices[i] + 1
            IN  (IF mask[r] THEN normalized_normals[r] ELSE <<0, 0, 0>>)
                    \o <<astype_uint8(nptype, GetField(gt, records[i], "COLOR")[4])>>
    IN  Array([i \in DOMAIN records |->
            SetField(gt, records[i], "COLOR",
                     Array([c \in 1..4 |-> from_uint8(nptype, new_color(i)[c])]))])

AverageNormalColor ==
    /\ pc = "color"
    /\ IF ~ColorAllowed(obj, config, d3d11GameType)
       THEN /\ vb' = vb
            /\ pc' = "repack"
       ELSE IF ColorPassRaises(vb, d3d11GameType)
       THEN /\ vb' = <<>>
            /\ pc' = "error"
       ELSE /\ vb' = average_normal_color(vb, d3d11GameType)
            /\ pc' = "repack"
    /\ UNCHANGED <<obj, config, d3d11GameType, element_vertex_ndarray, indexed_vertices,
                   ib, cursor, category_buffer_dict, returned>>
    /\ UNCHANGED codec

(***************************************************************************)
(* calc_index_vertex_buffer, step (1): the index list and the unique      *)
(* records.                                                                *)
(***************************************************************************)
\* the loops of a polygon, last corner first
PolygonLoops_reversed(mesh, poly) ==
    [o \in 1..poly.loop_total |-> poly.loop_start + poly.loop_total - o]

\* mesh.loops[poly.loop_start:poly.loop_start + poly.loop_total], as loop indices
PolygonLoops(mesh, poly) ==
    PySlice([i \in DOMAIN mesh.loops |-> i - 1], poly.loop_start, poly.loop_start + poly.loop_total)

\* the record is looked up by the loop's vertex index instead of the loop index
DedupKey_by_vertex(evn, mesh, lindex) == evn[mesh.loops[lindex + 1].vertex_index + 1]

\* the tangent pass is applied to the per-loop records and the result is the key
DedupKey_recomputed(evn, mesh, lindex) ==
    IF TangentAllowed(obj, config, d3d11GameType)
    THEN average_normal_tangent(evn, d3d11GameType)[lindex + 1]
    ELSE evn[lindex + 1]

\* self.element_vertex_ndarray[blender_lvertex.index].tobytes()
DedupKey(evn, mesh, lindex) == evn[lindex + 1]

\* the inner comprehension over the loops of one polygon: every loop's key is looked up
\* with setdefault(key, len(indexed_vertices)); the dict afterwards and the ids, in order
RECURSIVE DedupLoops(_, _)
DedupLoops(d, keys) ==
    IF keys = <<>> THEN [dict |-> d, ids |-> <<>>]
    ELSE LET r    == setdefault(d, Head(keys), Len(d))
             rest == DedupLoops(r.dict, Tail(keys))
         IN  [dict |-> rest.dict, ids |-> <<r.value>> \o rest.ids]

\* one iteration of the outer comprehension: polygon poly; ib is kept flattened
DedupPolygon ==
    /\ pc = "dedup"
    /\ LET mesh  == to_mesh(obj)
           poly  == mesh.polygons[cursor + 1]
           loops == PolygonLoops(mesh, poly)
           r     == DedupLoops(indexed_vertices,
                               [o \in DOMAIN loops |->
                                    DedupKey(element_vertex_ndarray, mesh, loops[o])])
       IN  /\ indexed_vertices' = r.dict
           /\ ib' = ib \o r.ids
           /\ cursor' = cursor + 1
           /\ pc' = IF cursor + 1 = Len(mesh.polygons) THEN "tangent" ELSE "dedup"
    /\ UNCHANGED <<obj, config, d3d11GameType, element_vertex_ndarray, vb,
                   category_buffer_dict, returned>>
    /\ UNCHANGED codec

(***************************************************************************)
(* calc_index_vertex_buffer, step (2): the Category Buffer Dict.           *)
(***************************************************************************)
\* stride_offset is set from the current stride instead of accumulated
StrideOffset_not_accumulated(stride_dict, j) == (j - 1) * stride_dict[j].category_stride

\* stride_offset when the loop reaches entry j of the stride dict
StrideOffset(stride_dict, j) ==
    SumSeq([k \in 1..(j - 1) |-> stride_dict[k].category_stride])

\* data_matrix[:, stride_offset:stride_offset + category_stride].flatten()
CategorySlice(data_matrix, stride_offset, category_stride) ==
    Concat(Array([k \in DOMAIN data_matrix |->
                PySlice(data_matrix[k], stride_offset, stride_offset + category_stride)]))

CategoryNames(stride_dict) == {stride_dict[k].categoryname : k \in DOMAIN stride_dict}

\* the dict built for a non-empty data_matrix
calc_category_buffer_dict(data_matrix, gt) ==
    LET category_stride_dict == get_real_category_stride_dict(gt)
        entry(name) == CHOOSE j \in DOMAIN category_stride_dict :
                            category_stride_dict[j].categoryname = name
    IN  [name \in CategoryNames(CategoryStrideDict(gt)) \cup CategoryNames(category_stride_dict) |->
            IF name \in CategoryNames(category_stride_dict)
            THEN CategorySlice(data_matrix,
                               StrideOffset(category_stride_dict, entry(name)),
                               category_stride_dict[entry(name)].category_stride)
            ELSE <<>>]

\* numpy.array of no rows is 1-dimensional: data_matrix[:, a:b] raises IndexError
CalcCategoryBuffer ==
    /\ pc = "repack"
    /\ IF Len(vb) = 0 /\ Len(get_real_category_stride_dict(d3d11GameType)) > 0
       THEN /\ pc' = "error"
            /\ UNCHANGED <<category_buffer_dict, returned>>
       ELSE /\ category_buffer_dict' = calc_category_buffer_dict(vb, d3d11GameType)
            /\ returned' = Append(returned,
                                  [ib |-> ib, category_buffer_dict |-> category_buffer_dict'])
            /\ pc' = "done"
    /\ UNCHANGED <<obj, config, d3d11GameType, element_vertex_ndarray, indexed_vertices,
                   ib, cursor, vb>>
    /\ UNCHANGED codec

Next ==
    \/ GetBufferIbVbFast
    \/ DedupPolygon
    \/ AverageNormalTangent
    \/ AverageNormalColor
    \/ CalcCategoryBuffer

Spec == Init /\ [][Next]_vars

(***************************************************************************)
(* A second specification: the exporter is invoked again on the same       *)
(* object, which may lack the COLOR layer the game type asks for.          *)
(***************************************************************************)
MaxCalls == 2

RerunLoopSamples == {BaseLoop, [BaseLoop EXCEPT !.normal = <<0, 0, -10>>]}

InitRerun ==
    /\ \E n \in 0..MaxTris : \E loops \in [1..(3 * n) -> RerunLoopSamples] :
       \E colors \in {ColorLayer(3 * n, AuthoredColor), NoLayers} :
          obj = [data |-> MeshData(loops, colors), props |-> ImportedProps]
    /\ config \in [recalculate_tangent : BOOLEAN, recalculate_color : BOOLEAN]
    /\ d3d11GameType = GameTypeContiguous
    /\ Locals

GetBufferIbVbFastAgain ==
    /\ pc = "done"
    /\ Len(returned) < MaxCalls
    /\ Invoke

NextRerun ==
    \/ GetBufferIbVbFast
    \/ DedupPolygon
    \/ AverageNormalTangent
    \/ AverageNormalColor
    \/ CalcCategoryBuffer
    \/ GetBufferIbVbFastAgain

SpecRerun == InitRerun /\ [][NextRerun]_vars

(***************************************************************************)
(* A third specification: the two recompute passes called on a table of    *)
(* unique records given directly, whatever extraction would have produced. *)
(***************************************************************************)
MaxRecords == 2

\* the components of a record, colours as the raw float colour
PassRecordBase ==
    [POSITION |-> <<0, 0, 0>>, NORMAL |-> <<0, 0, 10>>,
     TANGENT  |-> <<10, 0, 0, -10>>, COLOR |-> <<10, 5, 0, 10>>,
     COLOR1   |-> <<0, 10, 10, 5>>]

\* a record and its one-field variations
PassRecordSamples ==
    { PassRecordBase,
      [PassRecordBase EXCEPT !.POSITION = <<10, 0, 0>>],
      [PassRecordBase EXCEPT !.NORMAL = <<0, 0, -10>>],
      [PassRecordBase EXCEPT !.TANGENT = <<10, 0, 0, 0>>],
      [PassRecordBase EXCEPT !.TANGENT = <<10, 0, 0, 10>>],
      [PassRecordBase EXCEPT !.COLOR = <<10, 5, 0, 5>>] }

\* the bytes of the record of the given components under the schema's dtype
RecordOf(gt, sample) ==
    Concat(Array([e \in DOMAIN gt.OrderedFullElementList |->
        LET name == gt.OrderedFullElementList[e]
        IN  FieldBytes(gt, name,
                       IF name \in ColorNames /\ ElementFormat(gt, name) = "R8G8B8A8_UNORM"
                       THEN TheArray(convert_4x_float32_to_r8g8b8a8_unorm(sample[name]))
                       ELSE sample[name])]))

PassGameTypes ==
    {GameTypeContiguous, GameTypeNoNormal, GameTypeNoTangent, GameTypeFloatColor,
     GameTypeTwoColors}

InitPasses ==
    /\ d3d11GameType \in PassGameTypes
    /\ config \in [recalculate_tangent : BOOLEAN, recalculate_color : BOOLEAN]
    /\ \E props \in PropsSamples : obj = [data |-> MeshData(<<>>, NoLayers), props |-> props]
    /\ \E n \in 1..MaxRecords : \E samples \in [1..n -> PassRecordSamples] :
          /\ \A i, j \in 1..n :
                i # j => RecordOf(d3d11GameType, samples[i]) # RecordOf(d3d11GameType, samples[j])
          /\ indexed_vertices =
                [k \in 1..n |-> [key |-> RecordOf(d3d11GameType, samples[k]), value |-> k - 1]]
    /\ element_vertex_ndarray = <<>>
    /\ ib = <<>>
    /\ cursor = 0
    /\ vb = <<>>
    /\ category_buffer_dict = <<>>
    /\ pc = "tangent"
    /\ returned = <<>>
    /\ converter_input = <<>>
    /\ converted = <<>>

NextPasses ==
    \/ AverageNormalTangent
    \/ AverageNormalColor

SpecPasses == InitPasses /\ [][NextPasses]_vars

(***************************************************************************)
(* A specification of the pipeline for schemas with a TEXCOORD element and *)
(* with four-component POSITION formats, on meshes whose UV layers are     *)
(* named by the ".xy" / ".zw" convention or not.                           *)
(***************************************************************************)
ExtractGameTypes ==
    {GameTypeTexcoord, GameTypeTexcoord4, GameTypeHalfPosition, GameTypeFloat4Position}

\* the UV layers of the object before the export, for a mesh of n loops
UvLayerSamples(n) ==
    { <<UvLayer("TEXCOORD.xy", UvSetA(n))>>,
      <<UvLayer("TEXCOORD.xy", UvSetA(n)), UvLayer("TEXCOORD.zw", UvSetB(n))>>,
      <<UvLayer("UVMap", UvSetA(n))>>,
      <<UvLayer("UVMap", UvSetA(n)), UvLayer("UVMap.001", UvSetB(n))>> }

\* a loop and the same loop with the other bitangent sign
ExtractLoopSamples == {BaseLoop, [BaseLoop EXCEPT !.bitangent_sign = -10]}

InitExtract ==
    /\ \E n \in 1..MaxTris : \E loops \in [1..(3 * n) -> ExtractLoopSamples] :
       \E uvs \in UvLayerSamples(3 * n) :
          obj = [data |-> MeshDataUV(loops, NoLayers, uvs), props |-> ImportedProps]
    /\ config \in [recalculate_tangent : BOOLEAN, recalculate_color : {FALSE}]
    /\ d3d11GameType \in ExtractGameTypes
    /\ Locals

SpecExtract == InitExtract /\ [][Next]_vars

(***************************************************************************)
(* The extraction of blend data: vertices with vertex groups, a schema     *)
(* with BLENDINDICES and BLENDWEIGHT.                                      *)
(***************************************************************************)
\* v.groups of a vertex: more than max_groups groups, fewer, none, two of equal weight
VertexGroupSamples ==
    { << VertexGroupElement(3, 2), VertexGroupElement(1, 8), VertexGroupElement(7, 5),
         VertexGroupElement(2, 3), VertexGroupElement(5, 10) >>,
      << VertexGroupElement(4, 3), VertexGroupElement(0, 7) >>,
      << >>,
      << VertexGroupElement(6, 5), VertexGroupElement(2, 5) >> }

\* the mesh with the given v.groups for its vertices
MeshDataGroups(loops, groups) ==
    [MeshData(loops, NoLayers) EXCEPT
        !.vertices = Array([i \in DOMAIN mesh_vertices |->
                        [mesh_vertices[i] EXCEPT !.groups = groups[i]]])]

BlendLoopSamples == {BaseLoop, [BaseLoop EXCEPT !.vertex_index = 1]}

InitBlend ==
    /\ \E n \in 1..MaxTris : \E loops \in [1..(3 * n) -> BlendLoopSamples] :
       \E groups \in [DOMAIN mesh_vertices -> VertexGroupSamples] :
          obj = [data |-> MeshDataGroups(loops, groups), props |-> ImportedProps]
    /\ config \in [recalculate_tangent : {FALSE}, recalculate_color : {FALSE}]
    /\ d3d11GameType \in {GameTypeBlend(patched) : patched \in BOOLEAN}
    /\ Locals

SpecBlend == InitBlend /\ [][Next]_vars

(***************************************************************************)
(* Schemas with an element in a format the extractor has no encoding for.  *)
(***************************************************************************)
UnencodableGameTypes ==
    {GameTypeTexcoordOf("R8G8B8A8_UNORM"), GameTypeColorOf("R16G16B16A16_UNORM")}

InitUnencodable ==
    /\ \E n \in 1..MaxTris : \E loops \in [1..(3 * n) -> ExtractLoopSamples] :
          obj = [data  |-> MeshDataUV(loops, ColorLayer(3 * n, AuthoredColor),
                                      <<UvLayer("TEXCOORD.xy", UvSetA(3 * n))>>),
                 props |-> ImportedProps]
    /\ config \in [recalculate_tangent : BOOLEAN, recalculate_color : {FALSE}]
    /\ d3d11GameType \in UnencodableGameTypes
    /\ Locals

SpecUnencodable == InitUnencodable /\ [][Next]_vars

(***************************************************************************)
(* A fifth specification: the four normalized encoders of                  *)
(* BufferDataConverter called directly on an array of four floats, values  *)
(* out of the [0, 1] and [-1, 1] ranges included.                          *)
(***************************************************************************)
ConverterInputs == {-10, -5, 0, 5, 10, 15}

InitConverters ==
    /\ converter_input \in [1..4 -> ConverterInputs]
    /\ converted = <<>>
    /\ obj = [data |-> MeshData(<<>>, NoLayers), props |-> ImportedProps]
    /\ config = [recalculate_tangent |-> FALSE, recalculate_color |-> FALSE]
    /\ d3d11GameType = GameTypeContiguous
    /\ element_vertex_ndarray = <<>>
    /\ indexed_vertices = <<>>
    /\ ib = <<>>
    /\ cursor = 0
    /\ vb = <<>>
    /\ category_buffer_dict = <<>>
    /\ pc = "input"
    /\ returned = <<>>

\* a call that returns the array r
Converted(name, r) ==
    /\ converted' = [converter |-> name, array |-> r]
    /\ pc' = "converted"
    /\ UNCHANGED <<obj, config, d3d11GameType, element_vertex_ndarray, indexed_vertices,
                   ib, cursor, vb, category_buffer_dict, returned, converter_input>>

ConvertR8G8B8A8Snorm ==
    /\ pc = "input"
    /\ \E r \in convert_4x_float32_to_r8g8b8a8_snorm(converter_input) :
            Converted("r8g8b8a8_snorm", r)

ConvertR8G8B8A8Unorm ==
    /\ pc = "input"
    /\ \E r \in convert_4x_float32_to_r8g8b8a8_unorm(converter_input) :
            Converted("r8g8b8a8_unorm", r)

ConvertR16G16B16A16Unorm ==
    /\ pc = "input"
    /\ \E r \in convert_4x_float32_to_r16g16b16a16_unorm(converter_input) :
            Converted("r16g16b16a16_unorm", r)

ConvertR16G16B16A16Snorm ==
    /\ pc = "input"
    /\ \E r \in convert_4x_float32_to_r16g16b16a16_snorm(converter_input) :
            Converted("r16g16b16a16_snorm", r)

NextConverters ==
    \/ ConvertR8G8B8A8Snorm
    \/ ConvertR8G8B8A8Unorm
    \/ ConvertR16G16B16A16Unorm
    \/ ConvertR16G16B16A16Snorm

SpecConverters == InitConverters /\ [][NextConverters]_vars

(***************************************************************************)
(* Vocabulary of the properties.                                           *)
(***************************************************************************)
\* the loop indices in traversal order: triangles in input order, loops in input order
TraversedLoops ==
    Concat(Array([p \in DOMAIN obj.data.polygons |->
                Array([o \in 1..obj.data.polygons[p].loop_total |->
                    obj.data.polygons[p].loop_start + o - 1])]))

\* the extracted (pre-recompute) records of the loops traversed so far, in that order
ExtractedRecords ==
    LET order == TraversedLoops
    IN  Array([n \in DOMAIN ib |-> element_vertex_ndarray[order[n] + 1]])


\* the unique records of the table
UniqueRecords == Range(Keys(indexed_vertices))

DedupFinished == pc \in {"tangent", "color", "repack", "done"}

\* the bytes category cat holds for record id in the returned buffers
BufferChunk(cat, id) ==
    PySlice(category_buffer_dict[cat],
            id * CategoryStride(d3d11GameType, cat),
            (id + 1) * CategoryStride(d3d11GameType, cat))

\* the record of an id as the returned buffers hold it, categories in dict order
OutputRecord(id) ==
    Concat(Array([k \in DOMAIN CategoryOrder(d3d11GameType) |->
                BufferChunk(CategoryOrder(d3d11GameType)[k], id)]))

\* the records the returned buffers hold for the entries of the index list
OutputRecords == Array([n \in DOMAIN ib |-> OutputRecord(ib[n])])

\* the bytes of the elements of a category in a record, in element order
CategoryElementBytes(rec, cat) ==
    Concat(Array([e \in DOMAIN d3d11GameType.OrderedFullElementList |->
                LET name == d3d11GameType.OrderedFullElementList[e]
                IN  IF ElementCategory(d3d11GameType, name) = cat
                    THEN PySlice(rec, FieldOffset(d3d11GameType, name),
                                 FieldOffset(d3d11GameType, name)
                                    + FieldByteWidth(d3d11GameType, name))
                    ELSE <<>>]))

Position(rec) == GetField(d3d11GameType, rec, "POSITION")
Normal(rec) == GetField(d3d11GameType, rec, "NORMAL")
TangentXYZ(rec) == PySlice(GetField(d3d11GameType, rec, "TANGENT"), 0, 3)

RECURSIVE SumOver(_, _)
SumOver(S, f) ==
    IF S = {} THEN <<0, 0, 0>>
    ELSE LET x == CHOOSE y \in S : TRUE IN VecAdd(f[x], SumOver(S \ {x}, f))

\* t is the vector s scaled to length one, or zero when s is zero
IsNormalized(t, s) ==
    LET sq == SumSeq([c \in DOMAIN s |-> s[c] * s[c]])
    IN  \E len \in 0..SumSeq([c \in DOMAIN s |-> Abs(s[c])]) :
            /\ len * len = sq
            /\ \A c \in DOMAIN s : IF len = 0 THEN t[c] = 0 ELSE t[c] * len = s[c] * 10

Clamp(v, lo, hi) == IF v < lo THEN lo ELSE IF v > hi THEN hi ELSE v

\* the whole number v is a nearest one to the rational n / d, d > 0
IsNearest(v, n, d) == 2 * Abs(v * d - n) <= d

\* parse_elementname_ravel_ndarray_dict has returned: every loop has its record
Extracted == pc \in {"dedup", "tangent", "color", "repack", "done"}

\* the elements of the schema for which startswith("TEXCOORD") holds
TexcoordElements ==
    {n \in Range(d3d11GameType.OrderedFullElementList) : n \in TexcoordNames}

\* the UV layers of the exported mesh that the naming convention gives to an element
SourceUvLayers(name) ==
    {k \in DOMAIN obj.data.uv_layers : obj.data.uv_layers[k].name \in {XY(name), ZW(name)}}

TangentRan == TangentAllowed(obj, config, d3d11GameType)
ColorRan == ColorAllowed(obj, config, d3d11GameType)

C2_IdDensity ==
    DedupFinished => Range(ib) = 0..(Cardinality(UniqueRecords) - 1)

\* a returned index list that reuses an id and has several ids
C2_Witness ==
    /\ pc = "done"
    /\ Cardinality(UniqueRecords) >= 2
    /\ Len(ib) > Cardinality(UniqueRecords)

(***************************************************************************)
(* C3  First-seen order: at every point of the traversal, an entry whose   *)
(* record was met before repeats that record's id, and an entry with a new *)
(* record has the number of distinct records met before it; hence the      *)
(* first entry is 0 and id k first occurs before id k+1.                   *)
(***************************************************************************)
C3_FirstSeenOrder ==
    /\ LET extracted == ExtractedRecords
       IN  \A n \in DOMAIN ib :
                LET before == {m \in 1..(n - 1) : extracted[m] = extracted[n]}
                IN  IF before # {}
                    THEN \A m \in before : ib[n] = ib[m]
                    ELSE ib[n] = Cardinality({extracted[m] : m \in 1..(n - 1)})
    /\ ib # <<>> => ib[1] = 0
    /\ \A n \in DOMAIN ib :
            ib[n] > 0 => \E m \in 1..(n - 1) : ib[m] = ib[n] - 1

\* the traversal has met a new record and then, again, the first one
C3_Witness ==
    /\ Len(ib) >= 3
    /\ ib[1] = 0 /\ ib[2] = 1 /\ ib[3] = 0

C5_CategoryReconstruction ==
    pc = "done" =>
        \A id \in 0..(Len(vb) - 1) :
            /\ \A k \in DOMAIN CategoryOrder(d3d11GameType) :
                    BufferChunk(CategoryOrder(d3d11GameType)[k], id)
                        = CategoryElementBytes(vb[id + 1], CategoryOrder(d3d11GameType)[k])
            /\ OutputRecord(id) = vb[id + 1]

(***************************************************************************)
(* C6  Every category of the stride mapping has a buffer; it is the        *)
(* concatenation in id order of the unique records' slices for the         *)
(* category, so its length is stride(category) x N.                        *)
(***************************************************************************)
C6_CategoryBufferLength ==
    pc = "done" =>
        \A k \in DOMAIN CategoryOrder(d3d11GameType) :
            LET cat    == CategoryOrder(d3d11GameType)[k]
                stride == CategoryStride(d3d11GameType, cat)
                offset == SumSeq([h \in 1..(k - 1) |->
                                    CategoryStride(d3d11GameType, CategoryOrder(d3d11GameType)[h])])
            IN  /\ cat \in DOMAIN category_buffer_dict
                /\ Len(category_buffer_dict[cat]) = stride * Cardinality(UniqueRecords)
                /\ \A id \in 0..(Cardinality(UniqueRecords) - 1) :
                        BufferChunk(cat, id) = PySlice(vb[id + 1], offset, offset + stride)

\* buffers of at least two unique records, of a schema with two categories
C6_Witness ==
    /\ pc = "done"
    /\ Cardinality(UniqueRecords) >= 2
    /\ Len(CategoryOrder(d3d11GameType)) >= 2
    /\ \A k \in DOMAIN CategoryOrder(d3d11GameType) :
            Len(category_buffer_dict[CategoryOrder(d3d11GameType)[k]]) > 0

C8_EmptyMesh ==
    Len(obj.data.loops) = 0 =>
        /\ pc # "error"
        /\ pc = "done" =>
                /\ ib = <<>>
                /\ \A k \in DOMAIN CategoryOrder(d3d11GameType) :
                        category_buffer_dict[CategoryOrder(d3d11GameType)[k]] = <<>>

C10_TangentValue ==
    (pc = "color" /\ TangentRan) =>
        LET given     == Keys(indexed_vertices)
            positions == Array([j \in DOMAIN given |-> Position(given[j])])
            normals   == Array([j \in DOMAIN given |-> Normal(given[j])])
            group(k)  == {j \in DOMAIN given : positions[j] = positions[k]}
        IN  \A k \in DOMAIN vb :
                /\ IsNormalized(TangentXYZ(vb[k]), SumOver(group(k), normals))
                /\ \A j \in group(k) : TangentXYZ(vb[j]) = TangentXYZ(vb[k])

\* the pass ran on a group of two records with a non-zero sum and on another group
C10_Witness ==
    /\ pc = "color"
    /\ TangentRan
    /\ \E j, k, l \in DOMAIN vb :
            /\ j # k
            /\ Position(vb[j]) = Position(vb[k])
            /\ Position(vb[l]) # Position(vb[j])
            /\ TangentXYZ(vb[j]) # <<0, 0, 0>>

(***************************************************************************)
(* C11  Tangent recompute zero-guard: the tangent pass does not fail on a  *)
(* table with records; a record whose position group's NORMALs sum to the  *)
(* zero vector gets TANGENT.xyz = (0,0,0), a finite value; a record of a   *)
(* group with a non-zero sum gets that sum normalized, a non-zero vector.  *)
(***************************************************************************)
C11_ZeroGuard ==
    /\ (pc = "error" /\ TangentRan) => Len(indexed_vertices) = 0
    /\ (pc = "color" /\ TangentRan) =>
            LET given     == Keys(indexed_vertices)
                positions == Array([j \in DOMAIN given |-> Position(given[j])])
                normals   == Array([j \in DOMAIN given |-> Normal(given[j])])
                sum(k)    == SumOver({j \in DOMAIN given : positions[j] = positions[k]}, normals)
            IN  \A k \in DOMAIN vb :
                    /\ \A c \in 1..3 : TangentXYZ(vb[k])[c] \in Float32Values
                    /\ IF sum(k) = <<0, 0, 0>>
                       THEN TangentXYZ(vb[k]) = <<0, 0, 0>>
                       ELSE /\ TangentXYZ(vb[k]) # <<0, 0, 0>>
                            /\ IsNormalized(TangentXYZ(vb[k]), sum(k))

\* the pass ran on two records of one position with opposite normals, whose tangent is
\* zero, and on a record of another position, whose tangent is not
C11_Witness ==
    /\ pc = "color"
    /\ TangentRan
    /\ \E j, k, l \in DOMAIN vb :
            /\ j # k
            /\ Position(vb[j]) = Position(vb[k])
            /\ Normal(vb[j]) = <<0, 0, 10>> /\ Normal(vb[k]) = <<0, 0, -10>>
            /\ TangentXYZ(vb[j]) = <<0, 0, 0>> /\ TangentXYZ(vb[k]) = <<0, 0, 0>>
            /\ Position(vb[l]) # Position(vb[j])
            /\ TangentXYZ(vb[l]) # <<0, 0, 0>>

(***************************************************************************)
(* C12  Tangent recompute sign: when the tangent pass has run, every       *)
(* record's TANGENT.w is -1.0 if the w the record itself had before the    *)
(* pass was >= 0 (0 included) and +1.0 otherwise, whatever the w of the    *)
(* other records of its position group.                                    *)
(***************************************************************************)
C12_TangentSign ==
    (pc = "color" /\ TangentRan) =>
        LET given == Keys(indexed_vertices)
        IN  \A k \in DOMAIN vb :
                LET before == GetField(d3d11GameType, given[k], "TANGENT")[4]
                    after  == GetField(d3d11GameType, vb[k], "TANGENT")[4]
                IN  after = IF before >= 0 THEN -10 ELSE 10

\* the pass ran on two records of one position, one with w = 0 and one with w < 0
C12_Witness ==
    /\ pc = "color"
    /\ TangentRan
    /\ \E j, k \in DOMAIN vb :
            LET given == Keys(indexed_vertices)
            IN  /\ Position(given[j]) = Position(given[k])
                /\ GetField(d3d11GameType, given[j], "TANGENT")[4] = 0
                /\ GetField(d3d11GameType, given[k], "TANGENT")[4] = -10
                /\ GetField(d3d11GameType, vb[j], "TANGENT")[4] = -10
                /\ GetField(d3d11GameType, vb[k], "TANGENT")[4] = 10

(***************************************************************************)
(* C13  Color-encoded-normal value, as claimed: when the color pass has    *)
(* run, every component of a record's COLOR.rgb is round(((m+1)/2)*255),   *)
(* rounded to nearest, m the mean of that NORMAL component over the        *)
(* records of the same POSITION; a mean of 0.0 gives 128, 1.0 gives 255.   *)
(***************************************************************************)
C13_ColorValue ==
    (pc = "repack" /\ ColorRan) =>
        LET given     == Keys(indexed_vertices)
            positions == Array([j \in DOMAIN given |-> Position(given[j])])
            normals   == Array([j \in DOMAIN given |-> Normal(given[j])])
            group(k)  == {j \in DOMAIN given : positions[j] = positions[k]}
        IN  \A k \in DOMAIN vb : \A c \in 1..3 :
                LET acc   == SumOver(group(k), normals)[c]
                    count == Cardinality(group(k))
                    color == GetField(d3d11GameType, vb[k], "COLOR")[c]
                IN  /\ color = RoundHalfEven((acc + 10 * count) * 255, 20 * count)
                    /\ acc = 0 => color = 128
                    /\ acc = 10 * count => color = 255

(***************************************************************************)
(* C14  Color recompute alpha preservation, as claimed: for every COLOR    *)
(* format of the schema, 8-bit unsigned normalized or float, the bytes of  *)
(* the alpha component of every record after the color pass are the bytes  *)
(* it had before the pass.                                                 *)
(***************************************************************************)
C14_AlphaPreserved ==
    (pc = "repack" /\ ColorRan) =>
        LET given   == Keys(indexed_vertices)
            off     == FieldOffset(d3d11GameType, "COLOR")
            w       == FieldByteWidth(d3d11GameType, "COLOR")
            a(rec)  == PySlice(rec, off + (w \div 4) * 3, off + w)
        IN  \A k \in DOMAIN vb : a(vb[k]) = a(given[k])

(***************************************************************************)
(* C15  Recompute no-op on missing elements, as claimed: with NORMAL       *)
(* absent from the schema neither pass raises and both return the records  *)
(* they were given, enabled or not; with TANGENT absent the tangent pass   *)
(* returns the records it was given.                                       *)
(***************************************************************************)
C15_NoOpOnMissing ==
    /\ "NORMAL" \notin Range(d3d11GameType.OrderedFullElementList) =>
            /\ pc # "error"
            /\ pc \in {"color", "repack"} => vb = Keys(indexed_vertices)
    /\ ("TANGENT" \notin Range(d3d11GameType.OrderedFullElementList) /\ pc = "color") =>
            vb = Keys(indexed_vertices)

(***************************************************************************)
(* C16  Unsigned normalized encoding clamps, as claimed: for every input   *)
(* value the N-bit unsigned normalized encoder, N = 8 and N = 16, returns  *)
(* round(clamp(value, 0, 1) * (2^N - 1)), a number of 0 .. 2^N - 1, so an  *)
(* input below 0 gives 0 and an input above 1 gives 2^N - 1; 0.0, 0.5 and  *)
(* 1.0 give 0, 128 +-1 and 255 for N = 8.                                  *)
(***************************************************************************)
C16_UnormClamps ==
    (pc = "converted" /\ converted.converter \in {"r8g8b8a8_unorm", "r16g16b16a16_unorm"}) =>
        LET max == IF converted.converter = "r8g8b8a8_unorm" THEN 255 ELSE 65535
        IN  \A c \in DOMAIN converter_input :
                /\ converted.array[c] \in 0..max
                /\ IsNearest(converted.array[c], Clamp(converter_input[c], 0, 10) * max, 10)
                /\ converter_input[c] <= 0 => converted.array[c] = 0
                /\ converter_input[c] >= 10 => converted.array[c] = max
                /\ (converter_input[c] = 5 /\ max = 255) => converted.array[c] \in 127..129

(***************************************************************************)
(* C17  Signed normalized encoding, as claimed: for every input value the  *)
(* N-bit signed normalized encoder, N = 8 and N = 16, returns              *)
(* round(clamp(value, -1, 1) * (2^(N-1) - 1)) as a signed number, always   *)
(* within -(2^(N-1) - 1) .. 2^(N-1) - 1; -1.0, 0.0 and 1.0 give -127, 0    *)
(* and 127 for N = 8, and -1.0 gives -32767 for N = 16.                    *)
(***************************************************************************)
C17_SnormEncoding ==
    (pc = "converted" /\ converted.converter \in {"r8g8b8a8_snorm", "r16g16b16a16_snorm"}) =>
        LET max == IF converted.converter = "r8g8b8a8_snorm" THEN 127 ELSE 32767
        IN  \A c \in DOMAIN converter_input :
                /\ converted.array[c] \in (-max)..max
                /\ IsNearest(converted.array[c], Clamp(converter_input[c], -10, 10) * max, 10)
                /\ converter_input[c] = -10 => converted.array[c] = -max
                /\ converter_input[c] = 0 => converted.array[c] = 0
                /\ converter_input[c] = 10 => converted.array[c] = max

(***************************************************************************)
(* C18  UV flip: once the records are extracted, every float TEXCOORD      *)
(* element holds, for every loop, the U of a source UV set of the element  *)
(* unchanged and 1 - v of that set as V: the flip is applied once, so the  *)
(* source uv (0.3, 0.2) is stored as (0.3, 0.8).                           *)
(***************************************************************************)
C18_UvFlip ==
    Extracted =>
        \A name \in TexcoordElements :
            \E k \in SourceUvLayers(name) :
                \A li \in DOMAIN element_vertex_ndarray :
                    LET uv     == obj.data.uv_layers[k].data[li]
                        stored == GetField(d3d11GameType, element_vertex_ndarray[li], name)
                    IN  /\ stored = <<uv[1], 10 - uv[2]>>
                        /\ uv = <<3, 2>> => stored = <<3, 8>>

\* a record is extracted whose TEXCOORD is (0.3, 0.8), from the source uv (0.3, 0.2)
C18_Witness ==
    /\ Extracted
    /\ "TEXCOORD" \in TexcoordElements
    /\ \E k \in SourceUvLayers("TEXCOORD") :
            /\ obj.data.uv_layers[k].data[1] = <<3, 2>>
            /\ GetField(d3d11GameType, element_vertex_ndarray[1], "TEXCOORD") = <<3, 8>>

(***************************************************************************)
(* C19  Four-component TEXCOORD, as claimed: with a 4-component float      *)
(* TEXCOORD and both UV sets supplied, the extraction does not fail and    *)
(* the element holds the flipped ".xy" set in components 0-1 and the       *)
(* flipped ".zw" set in components 2-3; whenever a ".xy" set is supplied,  *)
(* components 0-1 hold it, flipped, also for a 2-component element when a  *)
(* ".zw" set exists.                                                       *)
(***************************************************************************)
C19_TexcoordXYZW ==
    \A name \in TexcoordElements :
        LET layers == obj.data.uv_layers
            four   == format_components(ElementFormat(d3d11GameType, name)) = 4
        IN  /\ (four /\ HasUvLayer(layers, XY(name)) /\ HasUvLayer(layers, ZW(name))) =>
                    pc # "error"
            /\ (Extracted /\ HasUvLayer(layers, XY(name))) =>
                    \A li \in DOMAIN element_vertex_ndarray :
                        LET xy     == UvLayerNamed(layers, XY(name)).data[li]
                            stored == GetField(d3d11GameType, element_vertex_ndarray[li], name)
                        IN  /\ PySlice(stored, 0, 2) = <<xy[1], 10 - xy[2]>>
                            /\ (four /\ HasUvLayer(layers, ZW(name))) =>
                                    LET zw == UvLayerNamed(layers, ZW(name)).data[li]
                                    IN  PySlice(stored, 2, 4) = <<zw[1], 10 - zw[2]>>

(***************************************************************************)
(* C20  POSITION expansion, as claimed: the extraction does not fail on a  *)
(* 4-component POSITION format; every loop's POSITION holds the position   *)
(* of the vertex the loop refers to, and with a 4-component format the     *)
(* 4th component is 1.0 for every loop.                                    *)
(***************************************************************************)
C20_PositionExpansion ==
    LET four == format_components(ElementFormat(d3d11GameType, "POSITION")) = 4
    IN  /\ four => pc # "error"
        /\ Extracted =>
                \A li \in DOMAIN element_vertex_ndarray :
                    LET stored == GetField(d3d11GameType, element_vertex_ndarray[li], "POSITION")
                        vertex == obj.data.vertices[obj.data.loops[li].vertex_index + 1]
                    IN  /\ PySlice(stored, 0, 3) = vertex.undeformed_co
                        /\ four => stored[4] = 10

(***************************************************************************)
(* C21  Bitangent-sign flip applied exactly once, as claimed: in every     *)
(* record of the returned buffers, with the tangent pass disabled and with *)
(* it enabled, TANGENT.xyz is the loop tangent and TANGENT.w is the raw    *)
(* bitangent sign negated once.                                            *)
(***************************************************************************)
C21_FlipExactlyOnce ==
    pc = "done" =>
        LET order == TraversedLoops
            out   == OutputRecords
        IN  \A n \in DOMAIN ib :
                LET loop == obj.data.loops[order[n] + 1]
                IN  GetField(d3d11GameType, out[n], "TANGENT")
                        = loop.tangent \o <<-loop.bitangent_sign>>

(***************************************************************************)
(* C21  Bitangent-sign flip, amended: with the tangent pass disabled the   *)
(* returned TANGENT is the loop tangent with the raw bitangent sign        *)
(* negated once as w; with the pass enabled the sign is negated a second   *)
(* time by the pass, so w is the raw sign again (raw +1 is emitted as +1), *)
(* and TANGENT.xyz is the pass's normalized normal sum, not the loop       *)
(* tangent.                                                                *)
(***************************************************************************)
C21_FlipOncePerStage ==
    pc = "done" =>
        LET order == TraversedLoops
            out   == OutputRecords
            given == Keys(indexed_vertices)
            positions == Array([j \in DOMAIN given |-> Position(given[j])])
            normals   == Array([j \in DOMAIN given |-> Normal(given[j])])
        IN  \A n \in DOMAIN ib :
                LET loop    == obj.data.loops[order[n] + 1]
                    tangent == GetField(d3d11GameType, out[n], "TANGENT")
                IN  IF TangentRan
                    THEN /\ tangent[4] = loop.bitangent_sign
                         /\ IsNormalized(PySlice(tangent, 0, 3),
                                         SumOver({j \in DOMAIN given :
                                                    positions[j] = positions[ib[n] + 1]}, normals))
                    ELSE tangent = loop.tangent \o <<-loop.bitangent_sign>>

\* buffers returned with the pass enabled hold, for loops of raw sign +1 and -1, the raw
\* sign as w and a TANGENT.xyz that is not the loop tangent
C21_Witness ==
    /\ pc = "done"
    /\ TangentRan
    /\ \E m, n \in DOMAIN ib :
            LET lm == obj.data.loops[TraversedLoops[m] + 1]
                ln == obj.data.loops[TraversedLoops[n] + 1]
                tm == GetField(d3d11GameType, OutputRecords[m], "TANGENT")
                tn == GetField(d3d11GameType, OutputRecords[n], "TANGENT")
            IN  /\ lm.bitangent_sign = 10 /\ tm[4] = 10
                /\ ln.bitangent_sign = -10 /\ tn[4] = -10
                /\ PySlice(tm, 0, 3) # lm.tangent

\* f selects the groups of the 4 largest weights of a vertex, in descending weight order
IsTopSelection(groups, f) ==
    /\ \A j, k \in DOMAIN f : j # k => f[j] # f[k]
    /\ \A j, k \in DOMAIN f : j < k => groups[f[j]].weight >= groups[f[k]].weight
    /\ \A j \in DOMAIN groups :
            (\A k \in DOMAIN f : f[k] # j) =>
                \A k \in DOMAIN f : groups[j].weight <= groups[f[k]].weight

\* indices and weights hold the selected (group, weight) pairs, index k paired with
\* weight k, zero-padded; the weights are all 0 when they are patched
HoldsTopPairs(groups, indices, weights, patched) ==
    LET n == IF Len(groups) < 4 THEN Len(groups) ELSE 4
    IN  \E f \in [1..n -> DOMAIN groups] :
            /\ IsTopSelection(groups, f)
            /\ \A k \in 1..n :
                    /\ indices[k] = groups[f[k]].group
                    /\ weights[k] = IF patched THEN 0 ELSE groups[f[k]].weight
            /\ \A k \in (n + 1)..4 : indices[k] = 0 /\ weights[k] = 0

BlendIndices(rec) == GetField(d3d11GameType, rec, "BLENDINDICES")
BlendWeight(rec) == GetField(d3d11GameType, rec, "BLENDWEIGHT")

(***************************************************************************)
(* C22  Blend data: the record of every loop holds in BLENDINDICES and     *)
(* BLENDWEIGHT the (group, weight) pairs of the loop's vertex with the 4   *)
(* largest weights, in descending weight order, index k paired with weight *)
(* k, zero-padded; loops of the same vertex hold the same blend data; when *)
(* the schema marks weights as patched every BLENDWEIGHT component is 0    *)
(* and BLENDINDICES is still written.                                      *)
(***************************************************************************)
C22_BlendData ==
    (Extracted /\ "BLENDINDICES" \in Range(d3d11GameType.OrderedFullElementList)) =>
        /\ \A li \in DOMAIN element_vertex_ndarray :
                LET rec     == element_vertex_ndarray[li]
                    groups  == obj.data.vertices[obj.data.loops[li].vertex_index + 1].groups
                    indices == BlendIndices(rec)
                    weights == BlendWeight(rec)
                IN  HoldsTopPairs(groups, indices, weights,
                                  d3d11GameType.PatchBLENDWEIGHTS)
        /\ \A li, lj \in DOMAIN element_vertex_ndarray :
                obj.data.loops[li].vertex_index = obj.data.loops[lj].vertex_index =>
                    /\ BlendIndices(element_vertex_ndarray[li])
                            = BlendIndices(element_vertex_ndarray[lj])
                    /\ BlendWeight(element_vertex_ndarray[li])
                            = BlendWeight(element_vertex_ndarray[lj])

\* a vertex of five groups lost its smallest weight, a vertex of two groups is padded
C22_Witness ==
    /\ Extracted
    /\ ~d3d11GameType.PatchBLENDWEIGHTS
    /\ \E li, lj \in DOMAIN element_vertex_ndarray :
            /\ Len(obj.data.vertices[obj.data.loops[li].vertex_index + 1].groups) = 5
            /\ BlendIndices(element_vertex_ndarray[li]) = <<5, 1, 7, 2>>
            /\ BlendWeight(element_vertex_ndarray[li]) = <<10, 8, 5, 3>>
            /\ Len(obj.data.vertices[obj.data.loops[lj].vertex_index + 1].groups) = 2
            /\ BlendIndices(element_vertex_ndarray[lj]) = <<0, 4, 0, 0>>
            /\ BlendWeight(element_vertex_ndarray[lj]) = <<7, 3, 0, 0>>

\* the formats that map a float range onto an integer range
NormalizedFormats == {"R8G8B8A8_UNORM", "R16G16B16A16_UNORM"}

\* an element whose name/format combination the extractor has no encoding for: a
\* TEXCOORD that is not float, a COLOR of a normalized format other than 8-bit unsigned
Unencodable(gt, name) ==
    \/ name \in TexcoordNames /\ ElementFormat(gt, name) \notin FloatFormats
    \/ /\ name \in ColorNames
       /\ ElementFormat(gt, name) \in NormalizedFormats \ {"R8G8B8A8_UNORM"}

(***************************************************************************)
(* C23  Unsupported combinations fail: when the schema contains an element *)
(* whose name/format combination the extractor cannot encode, the          *)
(* conversion aborts with an error before any record is extracted and      *)
(* produces no Index Buffer and no category buffers; the element is never  *)
(* left zero or written unscaled.                                          *)
(***************************************************************************)
C23_UnsupportedFails ==
    (\E name \in Range(d3d11GameType.OrderedFullElementList) :
        Unencodable(d3d11GameType, name)) =>
            /\ pc \in {"start", "error"}
            /\ ib = <<>>
            /\ category_buffer_dict = <<>>

\* the bytes of an element in a record
ElementBytes(rec, name) ==
    PySlice(rec, FieldOffset(d3d11GameType, name),
            FieldOffset(d3d11GameType, name) + FieldByteWidth(d3d11GameType, name))

\* the unique records after the passes that ran, applied to the table in id order
RecomputedTable ==
    LET given   == Keys(indexed_vertices)
        tangent == IF TangentRan THEN average_normal_tangent(given, d3d11GameType) ELSE given
    IN  IF ColorRan THEN average_normal_color(tangent, d3d11GameType) ELSE tangent

(***************************************************************************)
(* C24  Index validity across recompute: the passes neither add, remove    *)
(* nor reorder records, so in the returned buffers every Index Buffer      *)
(* value v satisfies 0 <= v < (category buffer length / category stride)   *)
(* for every category, and record v of the category buffers is the         *)
(* (possibly recomputed) record that dedup gave id v: it is the recomputed *)
(* record of id v, and it agrees with the extracted record of every loop   *)
(* of index v on every element that no pass that ran rewrites.             *)
(***************************************************************************)
C24_IndexValidity ==
    pc = "done" =>
        /\ Len(vb) = Len(indexed_vertices)
        /\ \A n \in DOMAIN ib :
                /\ \A k \in DOMAIN CategoryOrder(d3d11GameType) :
                        LET cat    == CategoryOrder(d3d11GameType)[k]
                            stride == CategoryStride(d3d11GameType, cat)
                        IN  /\ Len(category_buffer_dict[cat]) % stride = 0
                            /\ 0 <= ib[n]
                            /\ ib[n] < Len(category_buffer_dict[cat]) \div stride
                /\ OutputRecord(ib[n]) = RecomputedTable[ib[n] + 1]
                /\ \A name \in Range(d3d11GameType.OrderedFullElementList) :
                        \/ name = "TANGENT" /\ TangentRan
                        \/ name = "COLOR" /\ ColorRan
                        \/ ElementBytes(OutputRecord(ib[n]), name)
                                = ElementBytes(ExtractedRecords[n], name)

\* both passes ran on a table of records at two positions, and the index list refers
\* to a record twice and to the last record
C24_Witness ==
    /\ pc = "done"
    /\ TangentRan
    /\ ColorRan
    /\ \E i, j \in DOMAIN vb : Position(vb[i]) # Position(vb[j])
    /\ \E m, n \in DOMAIN ib : m # n /\ ib[m] = ib[n]
    /\ \E n \in DOMAIN ib : ib[n] = Len(vb) - 1 /\ ib[n] > 0
    /\ \E n \in DOMAIN ib : OutputRecord(ib[n]) # ExtractedRecords[n]

\* the records agree on every element but the named one
SameButElement(after, before, name) ==
    /\ Len(after) = Len(before)
    /\ \A i \in DOMAIN after :
            \A other \in Range(d3d11GameType.OrderedFullElementList) \ {name} :
                ElementBytes(after[i], other) = ElementBytes(before[i], other)

\* a step of the tangent pass that returns: from the table to vb
TangentFrame ==
    (pc = "tangent" /\ pc' = "color") =>
        SameButElement(vb', Keys(indexed_vertices), "TANGENT")

\* a step of the colour pass that returns: from vb to vb
ColorFrame ==
    (pc = "color" /\ pc' = "repack") => SameButElement(vb', vb, "COLOR")

\* when both passes ran, the records are those of the colour pass followed by the
\* tangent pass
EitherOrder ==
    (pc \in {"repack", "done"} /\ TangentRan /\ ColorRan) =>
        vb = average_normal_tangent(
                average_normal_color(Keys(indexed_vertices), d3d11GameType), d3d11GameType)

(***************************************************************************)
(* C25  Recompute frame: a step of the tangent pass leaves the bytes of    *)
(* every element but TANGENT as they were, a step of the colour pass       *)
(* leaves the bytes of every element but the one named COLOR as they were  *)
(* (COLOR1 included), no record is added or removed, and the records after *)
(* both passes are the same as with the passes applied in the other order. *)
(***************************************************************************)
C25_RecomputeFrame ==
    /\ [][TangentFrame]_vars
    /\ [][ColorFrame]_vars
    /\ []EitherOrder

\* both passes ran on records with a COLOR1 element and rewrote TANGENT and COLOR,
\* COLOR1 holding what it held in the table
C25_Witness ==
    /\ pc = "repack"
    /\ TangentRan
    /\ ColorRan
    /\ "COLOR1" \in Range(d3d11GameType.OrderedFullElementList)
    /\ \E i \in DOMAIN vb :
            /\ ElementBytes(vb[i], "TANGENT") # ElementBytes(Keys(indexed_vertices)[i], "TANGENT")
            /\ ElementBytes(vb[i], "COLOR") # ElementBytes(Keys(indexed_vertices)[i], "COLOR")
            /\ GetField(d3d11GameType, vb[i], "COLOR1") = <<0, 255, 255, 128>>

\* the object carries a truthy per-object property of the name
TruthyProperty(name) == name \in DOMAIN obj.props /\ obj.props[name] = TRUE

\* the element is in the schema and the global flag or the per-object property is on
TangentGate ==
    /\ "TANGENT" \in Range(d3d11GameType.OrderedFullElementList)
    /\ config.recalculate_tangent \/ TruthyProperty("3DMigoto:RecalculateTANGENT")

ColorGate ==
    /\ "COLOR" \in Range(d3d11GameType.OrderedFullElementList)
    /\ config.recalculate_color \/ TruthyProperty("3DMigoto:RecalculateCOLOR")

\* a step of the tangent pass: with the gate open it raises or rewrites TANGENT.w of
\* every record, with the gate closed it returns the table as it is
TangentGated ==
    pc = "tangent" =>
        IF TangentGate
        THEN \/ pc' = "error"
             \/ /\ pc' = "color"
                /\ Len(vb') = Len(indexed_vertices)
                /\ \A i \in DOMAIN vb' :
                        GetField(d3d11GameType, vb'[i], "TANGENT")[4]
                            # GetField(d3d11GameType, Keys(indexed_vertices)[i], "TANGENT")[4]
        ELSE pc' = "color" /\ vb' = Keys(indexed_vertices)

\* a step of the colour pass: with the gate open it raises or rewrites COLOR of every
\* record, with the gate closed it returns the records as they are
ColorGated ==
    pc = "color" =>
        IF ColorGate
        THEN \/ pc' = "error"
             \/ /\ pc' = "repack"
                /\ Len(vb') = Len(vb)
                /\ \A i \in DOMAIN vb' :
                        PySlice(GetField(d3d11GameType, vb'[i], "COLOR"), 0, 3)
                            # PySlice(GetField(d3d11GameType, vb[i], "COLOR"), 0, 3)
        ELSE pc' = "repack" /\ vb' = vb

\* the per-object properties as the import leaves them are both there and False
ImportedOff ==
    obj.props = ImportedProps =>
        /\ DOMAIN obj.props = {"3DMigoto:RecalculateTANGENT", "3DMigoto:RecalculateCOLOR"}
        /\ \A name \in DOMAIN obj.props : obj.props[name] = FALSE

====
